---------------------------- MODULE Spec2Model ----------------------------
(***************************************************************************)
(* A model of praw.models.submission.Submission.                           *)
(*                                                                         *)
(* Strings are modelled as sequences of tokens.  A token is either one of  *)
(* the delimiter characters ":", "/", "?", "#" or a word, a maximal run    *)
(* of characters that are not delimiters.  Two words are never adjacent    *)
(* in a string, so a string is alphanumeric exactly when it is one single  *)
(* alphanumeric word, and it equals 'comments' exactly when it is the      *)
(* one-token string <<"comments">>.                                        *)
(***************************************************************************)
EXTENDS Integers, Sequences, FiniteSets, TLC

(***************************************************************************)
(* Bounds of the model.                                                    *)
(***************************************************************************)
\* the largest number of path segments of a URL handed to id_from_url
MaxSegs == 5

(***************************************************************************)
(* Words.                                                                  *)
(***************************************************************************)
\* words on which str.isalnum() is true
AlnumWords == {"comments", "r", "2gmzqe", "redditdev"}

\* str.isalnum(): at least one character, and all of them letters or digits
isalnum(s) ==
    /\ Len(s) >= 1
    /\ \A i \in 1..Len(s) : s[i] \in AlnumWords

(***************************************************************************)
(* The URLs handed to id_from_url: a URL is written down from its          *)
(* components (RFC 3986: scheme, authority, path, query or fragment).      *)
(***************************************************************************)
Schemes == {"http", "https"}

\* "" is the empty authority of http:///path
Hosts == {"redd.it", ""}

\* the path segments; "" is the empty segment (a trailing or doubled slash)
Segments == {"", "comments", "r", "2gmzqe", "praw_https"}

RECURSIVE SeqsUpTo(_, _)
SeqsUpTo(S, n) ==
    IF n = 0 THEN {<<>>}
    ELSE LET shorter == SeqsUpTo(S, n - 1)
         IN  shorter \cup {Append(s, x) : s \in {t \in shorter : Len(t) = n - 1}, x \in S}

\* A URL's components.  scheme "" is a URL without a scheme.  A path after
\* an authority is empty or begins with a slash; a path without authority
\* does not begin with two slashes (they would begin an authority).
UrlParts ==
    { p \in [scheme : Schemes \cup {""}, hasAuthority : BOOLEAN, host : Hosts,
             rooted : BOOLEAN, segs : SeqsUpTo(Segments, MaxSegs),
             tail : {"", "?", "#"}] :
        /\ (~p.hasAuthority) => p.host = ""
        /\ (p.segs = <<>>) => ~p.rooted
        /\ (p.hasAuthority /\ p.segs # <<>>) => p.rooted
        /\ (~p.hasAuthority /\ p.segs # <<>>) => p.segs[1] # "" }

Word(w) == IF w = "" THEN <<>> ELSE <<w>>

RECURSIVE JoinSlash(_)
JoinSlash(segs) ==
    IF Len(segs) = 0 THEN <<>>
    ELSE IF Len(segs) = 1 THEN Word(segs[1])
    ELSE Word(segs[1]) \o <<"/">> \o JoinSlash(Tail(segs))

\* the URL string of the components
FormatUrl(p) ==
       (IF p.scheme # "" THEN <<p.scheme, ":">> ELSE <<>>)
    \o (IF p.hasAuthority THEN <<"/", "/">> \o Word(p.host) ELSE <<>>)
    \o (IF p.rooted THEN <<"/">> ELSE <<>>)
    \o JoinSlash(p.segs)
    \o (IF p.tail # "" THEN <<p.tail, "x">> ELSE <<>>)

(***************************************************************************)
(* urlparse, as id_from_url uses it: the netloc and the path.              *)
(***************************************************************************)
\* the index of the first token of s that is in D, or Len(s) + 1
RECURSIVE FindFirst(_, _, _)
FindFirst(s, D, i) ==
    IF i > Len(s) THEN Len(s) + 1
    ELSE IF s[i] \in D THEN i
    ELSE FindFirst(s, D, i + 1)

Delimiters == {":", "/", "?", "#"}

urlparse(url) ==
    LET hasScheme == /\ Len(url) >= 2
                     /\ url[1] \notin Delimiters
                     /\ url[2] = ":"
        rest      == IF hasScheme THEN SubSeq(url, 3, Len(url)) ELSE url
        hasNetloc == Len(rest) >= 2 /\ rest[1] = "/" /\ rest[2] = "/"
        after     == IF hasNetloc THEN SubSeq(rest, 3, Len(rest)) ELSE rest
        netEnd    == FindFirst(after, {"/", "?", "#"}, 1)
        netloc    == IF hasNetloc THEN SubSeq(after, 1, netEnd - 1) ELSE <<>>
        fromPath  == IF hasNetloc THEN SubSeq(after, netEnd, Len(after)) ELSE rest
        pathEnd   == FindFirst(fromPath, {"?", "#"}, 1)
    IN  [scheme |-> IF hasScheme THEN <<url[1]>> ELSE <<>>,
         netloc |-> netloc,
         path   |-> SubSeq(fromPath, 1, pathEnd - 1)]

\* str.split('/'): the pieces between the slashes, empty ones included
RECURSIVE split(_)
split(s) ==
    LET i == FindFirst(s, {"/"}, 1)
    IN  IF i > Len(s) THEN <<s>>
        ELSE <<SubSeq(s, 1, i - 1)>> \o split(SubSeq(s, i + 1, Len(s)))

\* list.index(x): the first index of x (counted from 1 here)
index(parts, x) == FindFirst(parts, {x}, 1)

comments == <<"comments">>

Returned(v) == [kind |-> "return", value |-> v]
Raised(e)   == [kind |-> e, value |-> <<>>]

(***************************************************************************)
(* Submission.id_from_url                                                  *)
(***************************************************************************)
\* id_from_url without its check of the netloc
id_from_url_no_netloc_check(url) ==
    LET parts == split(urlparse(url).path)
        at    == IF index(parts, comments) > Len(parts) THEN Len(parts)
                 ELSE index(parts, comments) + 1
    IN  IF at > Len(parts) THEN Raised("IndexError")
        ELSE IF isalnum(parts[at]) THEN Returned(parts[at])
        ELSE Raised("AttributeError")

id_from_url(url) ==
    LET parsed == urlparse(url)
        parts  == split(parsed.path)
    IN  IF parsed.netloc = <<>> THEN Raised("AttributeError")
        ELSE IF index(parts, comments) > Len(parts)
             THEN (IF isalnum(parts[Len(parts)])
                   THEN Returned(parts[Len(parts)])
                   ELSE Raised("AttributeError"))
             ELSE IF index(parts, comments) + 1 > Len(parts)
                  THEN Raised("IndexError")
                  ELSE IF isalnum(parts[index(parts, comments) + 1])
                       THEN Returned(parts[index(parts, comments) + 1])
                       ELSE Raised("AttributeError")

(***************************************************************************)
(* The client and the sibling resources the handle is built on.            *)
(***************************************************************************)
reddit == "reddit"

\* reddit.config[key]: the URL configured for an endpoint key
config(key) == <<"config", key>>

\* reddit.config['duplicates'].format(submissionid=...)
duplicates_url(submissionid) == <<"config", "duplicates", submissionid>>

\* API_PATH['submission'].format(id=...)
submission_path(submission_id) == <<"API_PATH", "submission", submission_id>>

\* reddit.config.short_url
short_url == <<"http", ":", "/", "/", "redd.it", "/">>

\* the fullname of the handle: the type prefix of a submission and its id
fullname(self) == <<"t3", self.id>>

Redditor_from_data(r, data) == <<"Redditor", r, data>>
Subreddit(r, name) == <<"Subreddit", r, name>>
CommentForest(submission, children) == <<"CommentForest", submission.id, children>>

\* a call of a method of the client
Call(fn, target, args, kwargs) ==
    [fn |-> fn, url |-> target, args |-> args, kwargs |-> kwargs]

\* what a method did: the calls it made of the client in order, and its outcome
Did(requests, outcome) == [requests |-> requests, result |-> outcome]

NoKwargs == <<>>

(***************************************************************************)
(* Submission.__init__                                                     *)
(***************************************************************************)
\* the base construction: binds the client and the path; by its lazy
\* behaviour it may already have put an id into the object's __dict__
RedditBase_init(r, info_path, populated) ==
    [reddit |-> r, info_path |-> info_path, fetched |-> FALSE, attrs |-> <<>>,
     dict |-> IF populated = <<>> THEN <<>> ELSE ("id" :> populated)]

\* __init__ that sets the id whatever the base construction left
init_overwrites(id_or_url, populated) ==
    LET resolved == IF isalnum(id_or_url) THEN Returned(id_or_url)
                    ELSE id_from_url(id_or_url)
    IN  IF resolved.kind # "return" THEN resolved
        ELSE LET base == RedditBase_init(reddit, submission_path(resolved.value), populated)
             IN  Returned([reddit |-> base.reddit, info_path |-> base.info_path,
                           fetched |-> base.fetched, attrs |-> base.attrs,
                           id |-> resolved.value])

\* the outcome of Submission(reddit, id_or_url): the new object, or the
\* exception id_from_url raised
init(id_or_url, populated) ==
    LET resolved == IF isalnum(id_or_url) THEN Returned(id_or_url)
                    ELSE id_from_url(id_or_url)
    IN  IF resolved.kind # "return" THEN resolved
        ELSE LET base == RedditBase_init(reddit, submission_path(resolved.value), populated)
             IN  Returned([reddit |-> base.reddit, info_path |-> base.info_path,
                           fetched |-> base.fetched, attrs |-> base.attrs,
                           id |-> IF "id" \notin DOMAIN base.dict
                                  THEN resolved.value
                                  ELSE base.dict["id"]])

(***************************************************************************)
(* Submission._transform_data                                              *)
(***************************************************************************)
\* _transform_data without its second assertion
transform_data_one_assert(self, original_data) ==
    IF Len(original_data) # 2 THEN Raised("AssertionError")
    ELSE IF Len(original_data[1].data.children) = 0 THEN Raised("IndexError")
    ELSE LET data == original_data[1].data.children[1].data
         IN  Returned(   ("author" :> Redditor_from_data(self.reddit, data.author))
                      @@ ("comments" :> CommentForest(self, original_data[2].data.children))
                      @@ ("subreddit" :> Subreddit(self.reddit, data.subreddit))
                      @@ data)

\* _transform_data that builds the comment forest from the children of
\* element 0
transform_data_wrong_children(self, original_data) ==
    IF Len(original_data) # 2 THEN Raised("AssertionError")
    ELSE IF Len(original_data[1].data.children) # 1 THEN Raised("AssertionError")
    ELSE LET data == original_data[1].data.children[1].data
         IN  Returned(   ("author" :> Redditor_from_data(self.reddit, data.author))
                      @@ ("comments" :> CommentForest(self, original_data[1].data.children))
                      @@ ("subreddit" :> Subreddit(self.reddit, data.subreddit))
                      @@ data)

transform_data(self, original_data) ==
    IF Len(original_data) # 2 THEN Raised("AssertionError")
    ELSE IF Len(original_data[1].data.children) # 1 THEN Raised("AssertionError")
    ELSE LET data == original_data[1].data.children[1].data
         IN  Returned(   ("author" :> Redditor_from_data(self.reddit, data.author))
                      @@ ("comments" :> CommentForest(self, original_data[2].data.children))
                      @@ ("subreddit" :> Subreddit(self.reddit, data.subreddit))
                      @@ data)

\* the merge of a transformed attribute map into the handle's cached state
merge(self, data) == [self EXCEPT !.fetched = TRUE, !.attrs = data @@ self.attrs]

\* the fetch: one request of the handle's path, the transform, the merge.
\* Gives the calls made, the outcome, and the handle afterwards.
fetch(self, raw) ==
    LET t == transform_data(self, raw)
    IN  [requests |-> <<Call("request", self.info_path, <<>>, NoKwargs)>>,
         result   |-> t,
         self     |-> IF t.kind = "return" THEN merge(self, t.value) ELSE self]

\* the handle with its attributes loaded: the first access of an attribute
\* that is not there fetches
loaded(self, raw) ==
    IF self.fetched
    THEN [requests |-> <<>>, result |-> Returned(self.attrs), self |-> self]
    ELSE fetch(self, raw)

(***************************************************************************)
(* The methods.  Each gives what the call did, given the client's answer.  *)
(***************************************************************************)
\* str.replace(old, new) on a string of tokens
replace(s, old, new) == [i \in 1..Len(s) |-> IF s[i] = old THEN new ELSE s[i]]

\* '{0} :: {1}'.format(score, title)
unicode(attrs) == <<attrs.score, " :: ">> \o replace(attrs.title, "\r\n", " ")

comment(self, text, response) ==
    Did(<<Call("_add_comment", fullname(self), <<text>>, NoKwargs)>>, response)

\* get_duplicates whose keyword arguments override its own
get_duplicates_overridable(self, args, kwargs, response) ==
    Did(<<Call("get_content", duplicates_url(self.id), args,
               kwargs @@ ("object_filter" :> 1))>>, response)

\* a keyword argument given twice is a TypeError of the call itself
get_duplicates(self, args, kwargs, response) ==
    IF "object_filter" \in DOMAIN kwargs
    THEN Did(<<>>, Raised("TypeError"))
    ELSE Did(<<Call("get_content", duplicates_url(self.id), args,
                    ("object_filter" :> 1) @@ kwargs)>>, response)

get_flair_choices(self, subreddit, args, response) ==
    Did(<<Call("get_flair_choices", subreddit, <<fullname(self)>> \o args, NoKwargs)>>,
        response)

mark_as_nsfw(self, unmark_nsfw, response) ==
    Did(<<Call("request_json",
               config(IF unmark_nsfw THEN "unmarknsfw" ELSE "marknsfw"),
               <<>>, [data |-> [id |-> fullname(self)]])>>, response)

set_flair(self, subreddit, args, response) ==
    Did(<<Call("set_flair", subreddit, <<self.id>> \o args, NoKwargs)>>, response)

set_contest_mode(self, state, response) ==
    Did(<<Call("request_json", config("contest_mode"), <<>>,
               [data |-> [id |-> fullname(self), state |-> state]])>>, response)

set_suggested_sort(self, sort, response) ==
    Did(<<Call("request_json", config("suggested_sort"), <<>>,
               [data |-> [id |-> fullname(self), sort |-> sort]])>>, response)

\* urljoin(base, name) for a relative reference of one segment: the base
\* up to the last slash of its path, and the name
urljoin(base, name) ==
    LET parsed == urlparse(base)
        slashes == {i \in 1..Len(parsed.path) : parsed.path[i] = "/"}
        last    == IF slashes = {} THEN 0
                   ELSE CHOOSE i \in slashes : \A j \in slashes : j <= i
    IN  parsed.scheme \o <<":", "/", "/">> \o parsed.netloc
            \o (IF last = 0 THEN <<"/">> ELSE SubSeq(parsed.path, 1, last)) \o name

short_link(self) == urljoin(short_url, self.id)

\* sticky with its test of bottom turned round
sticky_inverted(self, bottom, response) ==
    Did(<<Call("request_json", config("sticky_submission"), <<>>,
               [data |-> IF bottom
                         THEN [id |-> fullname(self), state |-> TRUE, num |-> 1]
                         ELSE [id |-> fullname(self), state |-> TRUE]])>>, response)

sticky(self, bottom, response) ==
    Did(<<Call("request_json", config("sticky_submission"), <<>>,
               [data |-> IF ~bottom
                         THEN [id |-> fullname(self), state |-> TRUE, num |-> 1]
                         ELSE [id |-> fullname(self), state |-> TRUE]])>>, response)

\* unmark_as_nsfw that passes the default of mark_as_nsfw
unmark_as_nsfw_default(self, response) == mark_as_nsfw(self, FALSE, response)

unmark_as_nsfw(self, response) == mark_as_nsfw(self, TRUE, response)

unset_contest_mode(self, response) == set_contest_mode(self, FALSE, response)

unsticky(self, response) ==
    Did(<<Call("request_json", config("sticky_submission"), <<>>,
               [data |-> [id |-> fullname(self), state |-> FALSE]])>>, response)

(***************************************************************************)
(* The inputs of the model.                                                *)
(***************************************************************************)
\* the largest number of top-level elements of a fetch response
MaxTop == 3

\* the largest number of children of a listing
MaxChildren == 2

\* the data object of a submission as the server sends it, with or without
\* a field named comments
SubmissionData ==
    { [author |-> "alice", subreddit |-> "redditdev", id |-> "2gmzqe",
       title |-> <<"Hello", "\r\n", "World">>, score |-> 42],
      [author |-> "alice", subreddit |-> "redditdev", id |-> "2gmzqe",
       title |-> <<"Hello", "\r\n", "World">>, score |-> 42, comments |-> "raw"] }

Thing(data) == [data |-> data]
Listing(children) == [data |-> [children |-> children]]

SubmissionListings ==
    { Listing(c) : c \in SeqsUpTo({Thing(d) : d \in SubmissionData}, MaxChildren) }

CommentListings == { Listing(<<>>), Listing(<<Thing([body |-> "first"])>>) }

\* the decoded responses of a fetch: any number of top-level elements
RawResponses ==
    {<<>>} \cup { <<s>> \o rest : s \in SubmissionListings,
                                  rest \in SeqsUpTo(CommentListings, MaxTop - 1) }

\* the answers of the client to a request
Responses == {Returned("json"), Returned("errors"), Raised("RequestException")}

\* what the constructor is given: an id, or a URL written around an id
CreateTexts(X) ==
    { <<X>>,
      <<"https", ":", "/", "/", "redd.it", "/", X>>,
      <<"https", ":", "/", "/", "redd.it", "/", X, "/">>,
      <<"http", ":", "/", "/", "redd.it", "/", "comments", "/", X, "/">>,
      <<"https", ":", "/", "/", "redd.it", "/", "r", "/", "redditdev", "/",
        "comments", "/", X, "/", "praw_https", "/">>,
      <<"redd.it", "/", X>> }

CreateInputs ==
    UNION { { [text |-> t, ident |-> <<X>>] : t \in CreateTexts(X) } :
            X \in {"2gmzqe", "praw_https"} }

VARIABLES
    urlParts,   \* the components of the URL under resolution
    url,        \* the URL string handed to id_from_url
    result,     \* what the call did: a returned value or a raised exception
    pc,         \* where the caller of id_from_url is
    life,       \* "unborn", "live", or "failed" when the constructor raised
    created,    \* what the constructor was given
    self,       \* the handle
    lastCall    \* the last call of a method: its arguments and what it did

vars == <<urlParts, url, result, pc, life, created, self, lastCall>>

NoResult == [kind |-> "none", value |-> <<>>]
NoObject == [reddit |-> reddit, info_path |-> <<>>, fetched |-> FALSE,
             attrs |-> <<>>, id |-> <<>>]
NoCall == [op |-> "none", args |-> <<>>, answer |-> NoResult, requests |-> <<>>,
           result |-> NoResult]
NoUrl == [scheme |-> "", hasAuthority |-> FALSE, host |-> "", rooted |-> FALSE,
          segs |-> <<>>, tail |-> ""]

\* answer is what the client answered to the method's request
Called(op, args, answer, did) ==
    [op |-> op, args |-> args, answer |-> answer, requests |-> did.requests,
     result |-> did.result]

(***************************************************************************)
(* The resolution of one URL.                                              *)
(***************************************************************************)
InitUrl ==
    /\ urlParts \in UrlParts
    /\ url = FormatUrl(urlParts)
    /\ result = NoResult
    /\ pc = "call"
    /\ life = "unborn"
    /\ created = [text |-> <<>>, ident |-> <<>>, populated |-> <<>>]
    /\ self = NoObject
    /\ lastCall = NoCall

IdFromUrl ==
    /\ pc = "call"
    /\ result' = id_from_url(url)
    /\ pc' = "done"
    /\ UNCHANGED <<urlParts, url, life, created, self, lastCall>>

NextUrl == IdFromUrl

SpecUrl == InitUrl /\ [][NextUrl]_vars

(***************************************************************************)
(* The life of one handle.                                                 *)
(***************************************************************************)
Init ==
    /\ urlParts = NoUrl
    /\ url = <<>>
    /\ result = NoResult
    /\ pc = "idle"
    /\ life = "unborn"
    /\ created = [text |-> <<>>, ident |-> <<>>, populated |-> <<>>]
    /\ self = NoObject
    /\ lastCall = NoCall

urlVars == <<urlParts, url, result, pc>>

\* Submission(reddit, id_or_url)
Create ==
    /\ life = "unborn"
    /\ \E in \in CreateInputs, populated \in {<<>>, <<"r">>} :
         LET made == init(in.text, populated)
         IN  /\ created' = [text |-> in.text, ident |-> in.ident, populated |-> populated]
             /\ life' = IF made.kind = "return" THEN "live" ELSE "failed"
             /\ self' = IF made.kind = "return" THEN made.value ELSE self
             /\ lastCall' = Called("__init__", <<in.text>>, NoResult,
                                   Did(<<>>, IF made.kind = "return"
                                             THEN Returned(<<>>) ELSE made))
    /\ UNCHANGED urlVars

\* the first access of an attribute, or an explicit refresh
Fetch ==
    /\ life = "live"
    /\ \E raw \in RawResponses :
         LET f == fetch(self, raw)
         IN  /\ self' = f.self
             /\ lastCall' = Called("_fetch", <<raw>>, NoResult, f)
    /\ UNCHANGED <<urlVars, life, created>>

\* The methods that read attributes load them first when they are not
\* there; the response of that fetch matters only then.
FetchResponses == IF self.fetched THEN {<<>>} ELSE RawResponses

Unicode ==
    /\ life = "live"
    /\ \E raw \in FetchResponses :
         LET l == loaded(self, raw)
         IN  /\ self' = l.self
             /\ lastCall' = Called("__unicode__", <<>>, NoResult,
                                   IF l.result.kind # "return" THEN l
                                   ELSE Did(l.requests, Returned(unicode(l.self.attrs))))
    /\ UNCHANGED <<urlVars, life, created>>

Comment ==
    /\ life = "live"
    /\ \E text \in {"hello"}, response \in Responses :
         lastCall' = Called("comment", <<text>>, response, comment(self, text, response))
    /\ UNCHANGED <<urlVars, life, created, self>>

GetDuplicates ==
    /\ life = "live"
    /\ \E args \in {<<>>, <<"params">>},
          kwargs \in {NoKwargs, [limit |-> 10], [object_filter |-> 2],
                      [limit |-> 10, object_filter |-> 1]},
          response \in Responses :
         lastCall' = Called("get_duplicates", <<args, kwargs>>, response,
                            get_duplicates(self, args, kwargs, response))
    /\ UNCHANGED <<urlVars, life, created, self>>

GetFlairChoices ==
    /\ life = "live"
    /\ \E raw \in FetchResponses, response \in Responses :
         LET l   == loaded(self, raw)
             did == get_flair_choices(self, l.self.attrs.subreddit, <<>>, response)
         IN  /\ self' = l.self
             /\ lastCall' = Called("get_flair_choices", <<>>, response,
                                   IF l.result.kind # "return" THEN l
                                   ELSE Did(l.requests \o did.requests, did.result))
    /\ UNCHANGED <<urlVars, life, created>>

MarkAsNsfw ==
    /\ life = "live"
    /\ \E unmark_nsfw \in BOOLEAN, response \in Responses :
         lastCall' = Called("mark_as_nsfw", <<unmark_nsfw>>, response,
                            mark_as_nsfw(self, unmark_nsfw, response))
    /\ UNCHANGED <<urlVars, life, created, self>>

SetFlair ==
    /\ life = "live"
    /\ \E raw \in FetchResponses, flair \in {"flair"}, response \in Responses :
         LET l   == loaded(self, raw)
             did == set_flair(self, l.self.attrs.subreddit, <<flair>>, response)
         IN  /\ self' = l.self
             /\ lastCall' = Called("set_flair", <<flair>>, response,
                                   IF l.result.kind # "return" THEN l
                                   ELSE Did(l.requests \o did.requests, did.result))
    /\ UNCHANGED <<urlVars, life, created>>

SetContestMode ==
    /\ life = "live"
    /\ \E state \in BOOLEAN, response \in Responses :
         lastCall' = Called("set_contest_mode", <<state>>, response,
                            set_contest_mode(self, state, response))
    /\ UNCHANGED <<urlVars, life, created, self>>

SetSuggestedSort ==
    /\ life = "live"
    /\ \E sort \in {"blank", "top"}, response \in Responses :
         lastCall' = Called("set_suggested_sort", <<sort>>, response,
                            set_suggested_sort(self, sort, response))
    /\ UNCHANGED <<urlVars, life, created, self>>

ShortLink ==
    /\ life = "live"
    /\ lastCall' = Called("short_link", <<>>, NoResult, Did(<<>>, Returned(short_link(self))))
    /\ UNCHANGED <<urlVars, life, created, self>>

Sticky ==
    /\ life = "live"
    /\ \E bottom \in BOOLEAN, response \in Responses :
         lastCall' = Called("sticky", <<bottom>>, response, sticky(self, bottom, response))
    /\ UNCHANGED <<urlVars, life, created, self>>

UnmarkAsNsfw ==
    /\ life = "live"
    /\ \E response \in Responses :
         lastCall' = Called("unmark_as_nsfw", <<>>, response, unmark_as_nsfw(self, response))
    /\ UNCHANGED <<urlVars, life, created, self>>

UnsetContestMode ==
    /\ life = "live"
    /\ \E response \in Responses :
         lastCall' = Called("unset_contest_mode", <<>>, response, unset_contest_mode(self, response))
    /\ UNCHANGED <<urlVars, life, created, self>>

Unsticky ==
    /\ life = "live"
    /\ \E response \in Responses :
         lastCall' = Called("unsticky", <<>>, response, unsticky(self, response))
    /\ UNCHANGED <<urlVars, life, created, self>>

Next ==
    \/ Create
    \/ Fetch
    \/ Unicode
    \/ Comment
    \/ GetDuplicates
    \/ GetFlairChoices
    \/ MarkAsNsfw
    \/ SetFlair
    \/ SetContestMode
    \/ SetSuggestedSort
    \/ ShortLink
    \/ Sticky
    \/ UnmarkAsNsfw
    \/ UnsetContestMode
    \/ Unsticky

Spec == Init /\ [][Next]_vars

(***************************************************************************)
(* The claims about id_from_url, stated on the components of the URL.      *)
(***************************************************************************)
\* the URL has a network location
HasNetloc(p) == p.hasAuthority /\ p.host # ""

\* the segments of the path as the slashes cut it
PathSegments(p) ==
    IF p.segs = <<>> THEN <<"">>
    ELSE IF p.rooted THEN <<"">> \o p.segs
    ELSE p.segs

\* the URL is one of the documented shapes around the identifier X
ShortLinkOf(p, X) == p.segs = <<X>>
CommentsFormOf(p, X) == p.segs = <<"comments", X, "">>
LongFormOf(p, X) ==
    /\ Len(p.segs) = 5
    /\ p.segs[1] = "r"
    /\ p.segs[2] \in AlnumWords
    /\ p.segs[3] = "comments"
    /\ p.segs[4] = X
    /\ p.segs[5] # ""
AcceptedShapeOf(p, X) ==
    /\ p.scheme \in Schemes
    /\ HasNetloc(p)
    /\ p.tail = ""
    /\ ShortLinkOf(p, X) \/ CommentsFormOf(p, X) \/ LongFormOf(p, X)

\* C1: for every alphanumeric identifier X and every accepted URL shape
\* containing it (short link, /comments/X/, /r/community/comments/X/slug,
\* http or https), id_from_url returns exactly X.
C1_AcceptedShapesResolve ==
    pc = "done" =>
        \A X \in AlnumWords :
            AcceptedShapeOf(urlParts, X) => result = Returned(<<X>>)

\* C2: on an input with no network location, id_from_url always raises
\* AttributeError and never returns an identifier.
C2_NoNetlocIsInvalid ==
    (pc = "done" /\ ~HasNetloc(urlParts)) => result = Raised("AttributeError")

\* a URL without network location whose path ends in an identifier was rejected
C2_Witness ==
    /\ pc = "done"
    /\ ~HasNetloc(urlParts)
    /\ urlParts.segs # <<>>
    /\ urlParts.segs[Len(urlParts.segs)] = "2gmzqe"
    /\ "comments" \notin {urlParts.segs[i] : i \in 1..Len(urlParts.segs)}
    /\ result = Raised("AttributeError")

\* the first place of "comments" among the segments, or Len + 1
FirstComments(ps) ==
    IF \E i \in 1..Len(ps) : ps[i] = "comments"
    THEN CHOOSE i \in 1..Len(ps) :
            ps[i] = "comments" /\ \A j \in 1..(i - 1) : ps[j] # "comments"
    ELSE Len(ps) + 1

\* the resolved candidate is purely alphanumeric: the segment after
\* "comments", or else the final path segment (a segment that is not there
\* is no alphanumeric candidate)
CandidateIsAlnum(p) ==
    LET ps == PathSegments(p)
        i  == FirstComments(ps)
    IN  IF i <= Len(ps)
        THEN i + 1 <= Len(ps) /\ ps[i + 1] \in AlnumWords
        ELSE ps[Len(ps)] \in AlnumWords

\* C3: for every URL with a network location whose resolved candidate is not
\* purely alphanumeric, id_from_url raises AttributeError; it never returns a
\* non-alphanumeric identifier and never fails with another kind of error.
C3_NonAlnumCandidateIsInvalid ==
    (pc = "done" /\ HasNetloc(urlParts)) =>
        /\ (~CandidateIsAlnum(urlParts)) => result = Raised("AttributeError")
        /\ result.kind = "return" => isalnum(result.value)
        /\ result.kind \in {"return", "AttributeError"}

\* the final non-empty segment of the path, "" when there is none
RECURSIVE FinalNonEmpty(_)
FinalNonEmpty(ps) ==
    IF Len(ps) = 0 THEN ""
    ELSE IF ps[Len(ps)] # "" THEN ps[Len(ps)]
    ELSE FinalNonEmpty(SubSeq(ps, 1, Len(ps) - 1))

\* C9: with a network location, if the path has a segment "comments" the
\* candidate is the segment right after it, otherwise it is the final
\* non-empty path segment (so <host>/<X>/ resolves to X).
C9_CandidateChoice ==
    (pc = "done" /\ HasNetloc(urlParts)) =>
        LET ps   == PathSegments(urlParts)
            i    == FirstComments(ps)
            cand == IF i <= Len(ps) THEN ps[i + 1] ELSE FinalNonEmpty(ps)
        IN  (i + 1 <= Len(ps) \/ i > Len(ps)) =>
                IF cand \in AlnumWords
                THEN result = Returned(<<cand>>)
                ELSE result = Raised("AttributeError")

(***************************************************************************)
(* The claims about the handle.                                            *)
(***************************************************************************)
\* C4: the transform fails with AssertionError whenever the raw response has
\* not exactly two top-level elements or the children of its element 0 are
\* not exactly one, and then returns no attribute map.
C4_MalformedResponseRejected ==
    lastCall.op = "_fetch" =>
        LET raw == lastCall.args[1]
        IN  (Len(raw) # 2 \/ Len(raw[1].data.children) # 1) =>
                lastCall.result = Raised("AssertionError")

\* a response of two elements whose element 0 has two children was rejected
C4_Witness ==
    /\ lastCall.op = "_fetch"
    /\ Len(lastCall.args[1]) = 2
    /\ Len(lastCall.args[1][1].data.children) = 2
    /\ lastCall.result = Raised("AssertionError")

\* C5: for a well-formed response of two elements the returned map has
\* author, comments and subreddit replaced by the author resource, the
\* comment forest of this handle over element 1's children, and the community
\* resource; every other field of the child's data is there unchanged and no
\* other field is added or removed.
C5_TransformReplacesThreeFields ==
    lastCall.op = "_fetch" =>
        LET raw == lastCall.args[1]
        IN  (Len(raw) = 2 /\ Len(raw[1].data.children) = 1) =>
                LET data == raw[1].data.children[1].data
                    out  == lastCall.result.value
                IN  /\ lastCall.result.kind = "return"
                    /\ DOMAIN out = DOMAIN data \cup {"author", "comments", "subreddit"}
                    /\ out["author"] = Redditor_from_data(reddit, data["author"])
                    /\ out["comments"] = CommentForest(self, raw[2].data.children)
                    /\ out["subreddit"] = Subreddit(reddit, data["subreddit"])
                    /\ \A k \in DOMAIN data \ {"author", "comments", "subreddit"} :
                           out[k] = data[k]

\* a well-formed response with a raw comments field and one reply was transformed
C5_Witness ==
    /\ lastCall.op = "_fetch"
    /\ Len(lastCall.args[1]) = 2
    /\ Len(lastCall.args[1][1].data.children) = 1
    /\ "comments" \in DOMAIN lastCall.args[1][1].data.children[1].data
    /\ Len(lastCall.args[1][2].data.children) = 1
    /\ lastCall.result.kind = "return"
    /\ lastCall.result.value["id"] = "2gmzqe"

\* C6: every listing request get_duplicates issues goes to the duplicates URL
\* of this handle's id with object_filter = 1, whatever extra arguments the
\* caller gives: a caller who gives none for object_filter gets exactly that
\* one request with their other arguments, and one who gives an object_filter
\* gets no request at all.
C6_DuplicatesFilterFixed ==
    lastCall.op = "get_duplicates" =>
        LET args   == lastCall.args[1]
            kwargs == lastCall.args[2]
            reqs   == lastCall.requests
        IN  /\ \A i \in 1..Len(reqs) :
                 /\ reqs[i].fn = "get_content"
                 /\ reqs[i].url = duplicates_url(self.id)
                 /\ "object_filter" \in DOMAIN reqs[i].kwargs
                 /\ reqs[i].kwargs["object_filter"] = 1
            /\ "object_filter" \notin DOMAIN kwargs =>
                 /\ Len(reqs) = 1
                 /\ reqs[1].args = args
                 /\ \A k \in DOMAIN kwargs : reqs[1].kwargs[k] = kwargs[k]
                 /\ lastCall.result = lastCall.answer
            /\ "object_filter" \in DOMAIN kwargs => Len(reqs) = 0

\* a listing request went out for a caller who gave arguments of their own
C6_Witness ==
    /\ lastCall.op = "get_duplicates"
    /\ lastCall.args = <<<<"params">>, [limit |-> 10]>>
    /\ Len(lastCall.requests) = 1
    /\ lastCall.requests[1].kwargs = [limit |-> 10, object_filter |-> 1]
    /\ lastCall.result = Returned("json")

\* C7: sticky submits to sticky_submission a payload with id = fullname and
\* state = true, with num = 1 exactly when bottom is false and no num when
\* bottom is true; unsticky submits to the same endpoint id = fullname and
\* state = false, without num.
C7_StickyPayloads ==
    /\ lastCall.op = "sticky" =>
         /\ Len(lastCall.requests) = 1
         /\ lastCall.requests[1].fn = "request_json"
         /\ lastCall.requests[1].url = config("sticky_submission")
         /\ LET data   == lastCall.requests[1].kwargs.data
                bottom == lastCall.args[1]
            IN  /\ DOMAIN data \subseteq {"id", "state", "num"}
                /\ data["id"] = fullname(self)
                /\ data["state"] = TRUE
                /\ ("num" \in DOMAIN data) <=> ~bottom
                /\ ~bottom => data["num"] = 1
    /\ lastCall.op = "unsticky" =>
         /\ Len(lastCall.requests) = 1
         /\ lastCall.requests[1].fn = "request_json"
         /\ lastCall.requests[1].url = config("sticky_submission")
         /\ lastCall.requests[1].kwargs.data = [id |-> fullname(self), state |-> FALSE]

\* sticky(bottom=False) sent num = 1
C7_Witness ==
    /\ lastCall.op = "sticky"
    /\ lastCall.args = <<FALSE>>
    /\ lastCall.requests[1].kwargs.data = [id |-> fullname(self), state |-> TRUE, num |-> 1]

\* the one request of mark_as_nsfw(unmark_nsfw)
NsfwRequest(unmark_nsfw) ==
    [fn |-> "request_json",
     url |-> IF unmark_nsfw THEN config("unmarknsfw") ELSE config("marknsfw"),
     args |-> <<>>,
     kwargs |-> [data |-> [id |-> fullname(self)]]]

\* C8: unmark_as_nsfw() issues the one request of mark_as_nsfw(unmark_nsfw=True):
\* endpoint unmarknsfw, payload {id: fullname}; mark_as_nsfw with the flag
\* false uses marknsfw with the same payload; both return the decoded
\* response as the client gave it.
C8_UnmarkIsMarkWithFlag ==
    /\ lastCall.op = "unmark_as_nsfw" =>
         /\ lastCall.requests = <<NsfwRequest(TRUE)>>
         /\ lastCall.result = lastCall.answer
    /\ lastCall.op = "mark_as_nsfw" =>
         /\ lastCall.requests = <<NsfwRequest(lastCall.args[1])>>
         /\ lastCall.result = lastCall.answer

\* unmark_as_nsfw() was called and gave back the client's answer
C8_Witness ==
    /\ lastCall.op = "unmark_as_nsfw"
    /\ lastCall.requests[1].url = config("unmarknsfw")
    /\ lastCall.result = Returned("json")

=============================================================================
